---- MODULE Spec2Model ----
(***************************************************************************)
(* KinaxisCrawler (src/main.py): a depth-bounded, visited-set-gated        *)
(* recursive crawl.  The call stack of crawl_page is explicit; every HTTP  *)
(* response is chosen by the environment when the request is made, so the  *)
(* two requests crawl_page makes for one URL (line 52, and line 25 through *)
(* get_links) are answered independently.                                  *)
(*                                                                         *)
(* Strings that the code inspects (URLs, href attributes, element texts)   *)
(* are sequences of tokens, so that str.startswith, str.strip and urljoin  *)
(* are computed rather than assumed.                                       *)
(*                                                                         *)
(* Spec is a whole run of main(); SpecLinks is get_links alone, on any     *)
(* page and any visited set.  In Spec the site brings up new URLs in a     *)
(* fixed order (SiteOrder) and holds a bounded number of anchors           *)
(* (MaxExtraAnchors); hrefs that get_links cannot resolve are left to      *)
(* SpecLinks.                                                              *)
(*                                                                         *)
(* SpecSite is the run of main() on a site whose pages hold the same links  *)
(* at every request (site), so that the link graph of a run is defined.    *)
(*                                                                         *)
(* response and markup record what the last request returned; they are     *)
(* history only, and are reset by the step that follows.  admitted and     *)
(* requests_since_sleep are history too.                                   *)
(*                                                                         *)
(* SpecMissing, SpecUpdate and SpecNaics are the enrichment scripts        *)
(* main_compinfo.py, main_compinfo_update.py and                           *)
(* main_compinfo_compliment.py, each run on a table of a few rows with     *)
(* every outcome of the API call.                                          *)
(*                                                                         *)
(* SpecScrape is main_with_nextbutton.py: the loop over the pages of the   *)
(* customers list, with every response a page may give.                    *)
(***************************************************************************)
EXTENDS Naturals, Sequences, FiniteSets, TLC

VARIABLES
    visited_urls,   \* self.visited_urls                       (main.py:17)
    case_studies,   \* self.case_studies                       (main.py:18)
    stack,          \* the frames of crawl_page, innermost last
    main_pc,        \* position of main()                      (main.py:88-91)
    response,       \* the response crawl_page has just received (main.py:52)
    fetch_calls,    \* per URL, the number of requests.get calls issued
    admissions,     \* per URL, the number of calls that passed line 45
    outcome,        \* per URL, how lines 52-62 ended for it
    extra_anchors,  \* how many <a> beyond the first of their page were served
    revealed,       \* how many URLs of SiteOrder pages have linked to so far
    markup,         \* the <a> elements of the page get_links parsed last
    valid_links,    \* ExtractLinks: the list get_links returned
    admitted,       \* the URLs that passed line 45, in the order they did
    requests_since_sleep,   \* requests.get calls issued since the last time.sleep
    saved_file,     \* what save_results wrote                 (main.py:77-83)
    site,           \* SpecSite: per URL, the <a> elements its page holds
    table           \* the script other than the crawler that runs.  For
                    \* main_with_nextbutton, see its section.  For
                    \* an enrichment script: its position, the table
                    \* as read (df), the table it writes into (updated_df), the
                    \* row of the loop (idx), the last return of
                    \* get_company_info_from_perplexity, that return per row
                    \* of the loop (answers) and, in main_compinfo, what the
                    \* call raised (raised)

\* what only main() and save_results touch, or only the history of requests
run_vars == << admitted, requests_since_sleep, saved_file >>

\* the state of the crawler
crawl_vars == << visited_urls, case_studies, stack, main_pc, response, fetch_calls,
                 admissions, outcome, extra_anchors, revealed, markup, valid_links,
                 run_vars, site >>

vars == << crawl_vars, table >>

-----------------------------------------------------------------------------
(* Bounds of the model *)

\* the largest number of <a> elements, beyond the first one of each page, that
\* the pages of the crawled site hold together
MaxExtraAnchors == 2

\* the largest number of <a> elements in a page given to get_links alone
MaxMarkup == 3

\* the same as MaxExtraAnchors, for the site of SpecSite
MaxStaticExtraAnchors == 1

\* the largest number of rows in a table given to an enrichment script
MaxRows == 2

\* the largest number of cards the pages served to main_with_nextbutton hold
\* together
MaxCards == 3

(* Program constants *)

\* the depth limit of crawl_page
MaxDepth == 3

\* status lines of a response; the code never reads the status
Statuses == { "200 OK", "404 Not Found" }

-----------------------------------------------------------------------------
(* URLs and href attributes as token sequences *)

base_url == << "https:", "//www.kinaxis.com" >>

SeedURL == base_url \o << "/en/customers" >>
UrlA == base_url \o << "/a" >>
UrlB == base_url \o << "/b" >>
UrlC == base_url \o << "/c" >>
UrlD == base_url \o << "/d" >>
UrlOther == << "https:", "//other.com", "/b" >>

Schemes == { "https:", "http:" }

\* href attribute values found in pages
HrefA == UrlA                          \* absolute, same origin
HrefB == << "/b" >>                    \* relative to the origin
HrefC == << "/c" >>
HrefD == << "/d" >>
HrefSeed == << "/en/customers" >>      \* a link back to the seed
HrefOther == UrlOther                  \* absolute, another origin
HrefBlank == << " ", " ", " " >>       \* three spaces
HrefBad == << "http:", "//[" >>        \* urlsplit: "Invalid IPv6 URL"

Hrefs == { HrefA, HrefB, HrefC, HrefD, HrefSeed, HrefOther, HrefBlank, HrefBad }

\* an <a> element without an href attribute
NoHref == << "<a>" >>

\* the outcome of urljoin raising ValueError
UrlError == << "ValueError" >>

\* str.startswith
StartsWith(s, prefix) ==
    /\ Len(s) >= Len(prefix)
    /\ SubSeq(s, 1, Len(prefix)) = prefix

\* leading spaces removed, as urlsplit does (CPython 3.11: lstrip of C0
\* control characters and space)
RECURSIVE LStrip(_)
LStrip(s) ==
    IF s # << >> /\ Head(s) = " " THEN LStrip(Tail(s)) ELSE s

RECURSIVE RStrip(_)
RStrip(s) ==
    IF s # << >> /\ s[Len(s)] = " " THEN RStrip(SubSeq(s, 1, Len(s) - 1)) ELSE s

\* str.strip
Strip(s) == RStrip(LStrip(s))

\* urllib.parse.urljoin(base, href), base having an empty path
urljoin(base, href) ==
    LET url == LStrip(href) IN
    IF url = << >> THEN base
    ELSE IF \E k \in 1..Len(url) : url[k] = "//[" THEN UrlError
    ELSE IF Head(url) \in Schemes THEN url
    ELSE base \o url

URLs == { urljoin(base_url, h) : h \in Hrefs } \ { UrlError }

-----------------------------------------------------------------------------
(* Pages *)

\* soup.find(tag) returning None
NoTag == << "<none>" >>

TitleText == "Acme Corp Success"
ContentText == "Acme reduced lead time by 30%."

\* the text of the first <h1> of a page, or NoTag
H1Choices == { NoTag, << " " >>, << " ", TitleText, " " >> }

\* the text of the first <article> of a page, or NoTag
ArticleChoices == { NoTag, << ContentText, " " >> }

\* sequences over S of length at most n
SeqUpTo(S, n) == UNION { [1..k -> S] : k \in 0..n }

\* the <a> elements of a page given to get_links alone
MarkupAnchors == SeqUpTo(Hrefs \cup { NoHref }, MaxMarkup)

\* soup.find_all("a", href=True)
find_all_href(anchors) == SelectSeq(anchors, LAMBDA a : a # NoHref)

\* the text taken without .strip()
ExtractTextUntrimmed(element) == IF element = NoTag THEN << >> ELSE element

\* title = soup.find("h1").text.strip() if soup.find("h1") else ""
ExtractText(element) == IF element = NoTag THEN << >> ELSE Strip(element)

\* crawl_page only compares URLs, so the URLs of the site other than the seed
\* are interchangeable: the site brings them up in this order
SiteOrder == << UrlA, UrlB, UrlC, UrlD, base_url >>

\* the number of URLs of SiteOrder linked to once `anchors` has been served after
\* n of them, or SiteOrder's length + 1 if `anchors` brings one up out of order
RECURSIVE Reveal(_, _)
Reveal(anchors, n) ==
    IF anchors = << >> THEN n
    ELSE LET u == IF Head(anchors) = NoHref THEN UrlError
                  ELSE urljoin(base_url, Head(anchors))
             later == { k \in n + 1 .. Len(SiteOrder) : SiteOrder[k] = u }
         IN IF later = { } THEN Reveal(Tail(anchors), n)
            ELSE IF n + 1 \in later THEN Reveal(Tail(anchors), n + 1)
            ELSE Len(SiteOrder) + 1

\* the number of <a> elements of a page beyond its first
Extra(anchors) == IF Len(anchors) > 1 THEN Len(anchors) - 1 ELSE 0

\* the href values of the crawled site; pages with an <a> without href or with
\* an href that urljoin rejects are given to get_links alone (ExtractLinks)
SiteHrefs == Hrefs \ { HrefBad }

\* the <a> elements a page of the crawled site may hold, in document order, once
\* n URLs of SiteOrder have been linked to and `extra` anchors beyond the first
\* of their page have been served
SiteAnchors(n, extra) ==
    LET most == 1 + MaxExtraAnchors - extra
        hrefs == { h \in SiteHrefs : Reveal(<< h >>, n + most - 1) <= Len(SiteOrder) }
    IN { a \in SeqUpTo(hrefs, most) : Reveal(a, n) <= Len(SiteOrder) }

\* the same for the site of SpecSite
StaticSiteAnchors(n, extra) ==
    LET most == 1 + MaxStaticExtraAnchors - extra
        hrefs == { h \in SiteHrefs : Reveal(<< h >>, n + most - 1) <= Len(SiteOrder) }
    IN { a \in SeqUpTo(hrefs, most) : Reveal(a, n) <= Len(SiteOrder) }

-----------------------------------------------------------------------------
(* get_links *)

\* the condition of lines 33-36 without its startswith
IsValidLinkAnyOrigin(full_url, visited) == full_url \notin visited

\* the condition of lines 33-36
IsValidLink(full_url, visited) ==
    /\ StartsWith(full_url, base_url)
    /\ full_url \notin visited

\* the for loop of lines 29-37; raised is set when urljoin raises
RECURSIVE LinkLoop(_, _, _)
LinkLoop(links, visited, acc) ==
    IF links = << >> THEN [raised |-> FALSE, links |-> acc]
    ELSE LET full_url == urljoin(base_url, Head(links)) IN
         IF full_url = UrlError THEN [raised |-> TRUE, links |-> acc]
         ELSE LinkLoop(Tail(links), visited,
                       IF IsValidLink(full_url, visited)
                       THEN Append(acc, full_url) ELSE acc)

\* get_links once the response has arrived: lines 26-42
get_links(anchors, visited) ==
    LET r == LinkLoop(find_all_href(anchors), visited, << >>) IN
    IF r.raised THEN << >> ELSE r.links

-----------------------------------------------------------------------------
(* crawl_page *)

\* the recursive call made without its depth argument: depth defaults to 0
FrameAtDefaultDepth(url, depth) ==
    [ url |-> url, depth |-> 0, pc |-> "enter", links |-> << >>, i |-> 1 ]

Frame(url, depth) ==
    [ url |-> url, depth |-> depth, pc |-> "enter", links |-> << >>, i |-> 1 ]

Top == stack[Len(stack)]

\* the return that also makes the caller pass over its next link
PopSkippingNext ==
    IF Len(stack) >= 2
    THEN [ SubSeq(stack, 1, Len(stack) - 1) EXCEPT ![Len(stack) - 1].i = @ + 1 ]
    ELSE << >>

Pop == SubSeq(stack, 1, Len(stack) - 1)

SetTop(f) == [ stack EXCEPT ![Len(stack)] = f ]

NoResponse == [ url |-> << >>, status |-> "none", h1 |-> NoTag, article |-> NoTag ]

\* the depth test off by one
AdmittedOneDeeper(url, depth) == ~ (depth > MaxDepth + 1 \/ url \in visited_urls)

\* the visited test left out
AdmittedUnvisitedOrNot(url, depth) == ~ (depth > MaxDepth)

\* both tests left out
AdmittedAlways(url, depth) == TRUE

\* line 45, negated: the call goes on to line 48
Admitted(url, depth) == ~ (depth > MaxDepth \/ url \in visited_urls)

\* the URL not marked at admission
MarkVisitedLater(url) == visited_urls

\* the set replaced instead of extended
MarkVisitedOnly(url) == { url }

\* line 48
MarkVisited(url) == visited_urls \cup { url }

\* only the title tested
KeepsRecordOnTitle(title, content) == title # << >>

\* line 59
KeepsRecord(title, content) == title # << >> /\ content # << >>

\* lines 60-62
MakeRecord(url, title, content) ==
    [ url |-> url, title |-> title, content |-> content ]

\* a page that has not been served
Unserved == << << "<unserved>" >> >>

\* no enrichment script runs
NoTable == [ script |-> "none" ]

\* the strings lines 80-83 write for one record
RecordBlock(case) ==
    << << "## " >> \o case.title \o << "\n\n" >>,
       case.content \o << "\n\n" >>,
       << "[Source](" >> \o case.url \o << ")", "\n\n" >>,
       << "---", "\n\n" >> >>

\* the records written newest first
RECURSIVE save_results_newest_first(_)
save_results_newest_first(cases) ==
    IF cases = << >> THEN << << "# Kinaxis Case Studies", "\n\n" >> >>
    ELSE << << "# Kinaxis Case Studies", "\n\n" >> >>
         \o RecordBlock(cases[Len(cases)])
         \o Tail(save_results_newest_first(SubSeq(cases, 1, Len(cases) - 1)))

\* lines 77-83: the strings written to the file, in the order of the writes
RECURSIVE save_results(_)
save_results(cases) ==
    IF cases = << >> THEN << << "# Kinaxis Case Studies", "\n\n" >> >>
    ELSE save_results(SubSeq(cases, 1, Len(cases) - 1))
         \o RecordBlock(cases[Len(cases)])

Init ==
    /\ visited_urls = { }
    /\ case_studies = << >>
    /\ stack = << >>
    /\ main_pc = "start"
    /\ response = NoResponse
    /\ fetch_calls = [ u \in URLs |-> 0 ]
    /\ admissions = [ u \in URLs |-> 0 ]
    /\ outcome = [ u \in URLs |-> "none" ]
    /\ extra_anchors = 0
    /\ revealed = 0
    /\ markup = << >>
    /\ valid_links = << >>
    /\ admitted = << >>
    /\ requests_since_sleep = 0
    /\ saved_file = << >>
    /\ site = [ u \in URLs |-> Unserved ]
    /\ table = NoTable

\* main() calls crawler.crawl_page(seed): line 90
MainCrawl ==
    /\ main_pc = "start"
    /\ main_pc' = "crawl"
    /\ stack' = << Frame(SeedURL, 0) >>
    /\ UNCHANGED << visited_urls, case_studies, response, fetch_calls,
                    admissions, outcome, extra_anchors, revealed, markup, valid_links, run_vars,
                    site, table >>

\* lines 45-46: the call returns at once
Reject ==
    /\ stack # << >>
    /\ Top.pc = "enter"
    /\ ~ Admitted(Top.url, Top.depth)
    /\ stack' = Pop
    /\ UNCHANGED << visited_urls, case_studies, main_pc, response, fetch_calls,
                    admissions, outcome, extra_anchors, revealed, markup, valid_links, run_vars,
                    site, table >>

\* lines 45-49: the call is admitted and the URL marked visited
Admit ==
    /\ stack # << >>
    /\ Top.pc = "enter"
    /\ Admitted(Top.url, Top.depth)
    /\ visited_urls' = MarkVisited(Top.url)
    /\ admitted' = Append(admitted, Top.url)
    /\ admissions' = [ admissions EXCEPT ![Top.url] = @ + 1 ]
    /\ stack' = SetTop([ Top EXCEPT !.pc = "fetch" ])
    /\ UNCHANGED << case_studies, main_pc, response, fetch_calls,
                    outcome, extra_anchors, revealed, markup, valid_links,
                    requests_since_sleep, saved_file,
                    site, table >>

\* no handler: the exception unwinds every frame of crawl_page
ExceptUnwinds == << >>

\* lines 70-71 after line 52 or 53 raised: the handler prints and the call returns
ExceptReturn == Pop

\* lines 52-53 raise
FetchRaises ==
    /\ stack # << >>
    /\ Top.pc = "fetch"
    /\ fetch_calls' = [ fetch_calls EXCEPT ![Top.url] = @ + 1 ]
    /\ requests_since_sleep' = requests_since_sleep + 1
    /\ outcome' = [ outcome EXCEPT ![Top.url] = "raised" ]
    /\ stack' = ExceptReturn
    /\ UNCHANGED << visited_urls, case_studies, main_pc, response,
                    admissions, extra_anchors, revealed, markup, valid_links,
                    admitted, saved_file,
                    site, table >>

\* lines 52-62: the response arrives, whatever its status, and is parsed
FetchParses ==
    /\ stack # << >>
    /\ Top.pc = "fetch"
    /\ \E status \in Statuses, h1 \in H1Choices, article \in ArticleChoices :
         LET title == ExtractText(h1)
             content == ExtractText(article)
         IN /\ response' = [ url |-> Top.url, status |-> status,
                             h1 |-> h1, article |-> article ]
            /\ case_studies' =
                 IF KeepsRecord(title, content)
                 THEN Append(case_studies, MakeRecord(Top.url, title, content))
                 ELSE case_studies
            /\ outcome' = [ outcome EXCEPT ![Top.url] =
                             IF title = << >> \/ content = << >>
                             THEN "skipped" ELSE "kept" ]
            /\ stack' = SetTop([ Top EXCEPT !.pc = "get_links" ])
    /\ requests_since_sleep' = requests_since_sleep + 1
    /\ fetch_calls' = [ fetch_calls EXCEPT ![Top.url] = @ + 1 ]
    /\ UNCHANGED << visited_urls, main_pc, admissions, extra_anchors, revealed,
                    markup, valid_links, admitted, saved_file,
                    site, table >>

\* line 65 with lines 23-42: get_links requests the page again; the status
\* of its response is not read, so it is not drawn
GetLinks ==
    /\ stack # << >>
    /\ Top.pc = "get_links"
    /\ fetch_calls' = [ fetch_calls EXCEPT ![Top.url] = @ + 1 ]
    /\ \/ \E anchors \in SiteAnchors(revealed, extra_anchors) :
            /\ revealed' = Reveal(anchors, revealed)
            /\ extra_anchors' = extra_anchors + Extra(anchors)
            /\ markup' = anchors
            /\ stack' = SetTop([ Top EXCEPT !.pc = "loop", !.i = 1,
                                  !.links = get_links(anchors, visited_urls) ])
       \/ \* lines 40-42: the request raised
          /\ stack' = SetTop([ Top EXCEPT !.pc = "loop", !.i = 1, !.links = << >> ])
          /\ markup' = << >>
          /\ UNCHANGED << revealed, extra_anchors >>
    /\ requests_since_sleep' = requests_since_sleep + 1
    /\ response' = NoResponse
    /\ UNCHANGED << visited_urls, case_studies, main_pc,
                    admissions, outcome, valid_links,
                    admitted, saved_file,
                    site, table >>

\* lines 66-68: sleep, then the recursive call
LoopCall ==
    /\ stack # << >>
    /\ Top.pc = "loop"
    /\ Top.i <= Len(Top.links)
    /\ stack' = Append(SetTop([ Top EXCEPT !.i = @ + 1 ]),
                       Frame(Top.links[Top.i], Top.depth + 1))
    /\ requests_since_sleep' = 0
    /\ markup' = << >>
    /\ UNCHANGED << visited_urls, case_studies, main_pc, response, fetch_calls,
                    admissions, outcome, extra_anchors, revealed, valid_links,
                    admitted, saved_file,
                    site, table >>

\* line 66 with the list exhausted: crawl_page returns
LoopDone ==
    /\ stack # << >>
    /\ Top.pc = "loop"
    /\ Top.i > Len(Top.links)
    /\ stack' = Pop
    /\ markup' = << >>
    /\ UNCHANGED << visited_urls, case_studies, main_pc, response, fetch_calls,
                    admissions, outcome, extra_anchors, revealed, valid_links, run_vars,
                    site, table >>

\* line 91: crawl_page has returned to main, which writes the results
MainSave ==
    /\ main_pc = "crawl"
    /\ stack = << >>
    /\ main_pc' = "done"
    /\ saved_file' = save_results(case_studies)
    /\ UNCHANGED << visited_urls, case_studies, stack, response, fetch_calls,
                    admissions, outcome, extra_anchors, revealed, markup, valid_links,
                    admitted, requests_since_sleep,
                    site, table >>

-----------------------------------------------------------------------------
(* get_links on its own: any page, any visited set *)

InitLinks ==
    /\ visited_urls \in SUBSET { SeedURL, UrlA, base_url }
    /\ markup \in MarkupAnchors
    /\ main_pc = "get_links"
    /\ valid_links = << >>
    /\ case_studies = << >>
    /\ stack = << >>
    /\ response = NoResponse
    /\ fetch_calls = [ u \in URLs |-> 0 ]
    /\ admissions = [ u \in URLs |-> 0 ]
    /\ outcome = [ u \in URLs |-> "none" ]
    /\ extra_anchors = 0
    /\ revealed = 0
    /\ admitted = << >>
    /\ requests_since_sleep = 0
    /\ saved_file = << >>
    /\ site = [ u \in URLs |-> Unserved ]
    /\ table = NoTable

\* lines 25-39, or 25-42 when urljoin raises: the page arrives and is parsed
ExtractLinks ==
    /\ main_pc = "get_links"
    /\ main_pc' = "returned"
    /\ valid_links' = get_links(markup, visited_urls)
    /\ requests_since_sleep' = requests_since_sleep + 1
    /\ fetch_calls' = [ fetch_calls EXCEPT ![SeedURL] = @ + 1 ]
    /\ UNCHANGED << visited_urls, case_studies, stack, response,
                    admissions, outcome, extra_anchors, revealed, markup,
                    admitted, saved_file,
                    site, table >>

\* lines 25, 40-42: the request raises
ExtractLinksFails ==
    /\ main_pc = "get_links"
    /\ main_pc' = "request failed"
    /\ valid_links' = << >>
    /\ requests_since_sleep' = requests_since_sleep + 1
    /\ fetch_calls' = [ fetch_calls EXCEPT ![SeedURL] = @ + 1 ]
    /\ UNCHANGED << visited_urls, case_studies, stack, response,
                    admissions, outcome, extra_anchors, revealed, markup,
                    admitted, saved_file,
                    site, table >>

NextLinks ==
    \/ ExtractLinks
    \/ ExtractLinksFails

SpecLinks == InitLinks /\ [][NextLinks]_vars

-----------------------------------------------------------------------------
(* The crawl of a site that serves each page the same way at every request
   that does not fail *)

\* lines 52-62 for a page served with a title and a content
FetchServed ==
    /\ stack # << >>
    /\ Top.pc = "fetch"
    /\ LET title == ExtractText(<< " ", TitleText, " " >>)
           content == ExtractText(<< ContentText, " " >>)
       IN /\ case_studies' =
               IF KeepsRecord(title, content)
               THEN Append(case_studies, MakeRecord(Top.url, title, content))
               ELSE case_studies
          /\ outcome' = [ outcome EXCEPT ![Top.url] = "kept" ]
          /\ stack' = SetTop([ Top EXCEPT !.pc = "get_links" ])
    /\ requests_since_sleep' = requests_since_sleep + 1
    /\ fetch_calls' = [ fetch_calls EXCEPT ![Top.url] = @ + 1 ]
    /\ UNCHANGED << visited_urls, main_pc, response, admissions, extra_anchors,
                    revealed, markup, valid_links, admitted, saved_file,
                    site, table >>

\* line 65 with lines 25, 40-42: the request of get_links raises
GetLinksOfSiteFails ==
    /\ stack # << >>
    /\ Top.pc = "get_links"
    /\ fetch_calls' = [ fetch_calls EXCEPT ![Top.url] = @ + 1 ]
    /\ stack' = SetTop([ Top EXCEPT !.pc = "loop", !.i = 1, !.links = << >> ])
    /\ markup' = << >>
    /\ requests_since_sleep' = requests_since_sleep + 1
    /\ UNCHANGED << visited_urls, case_studies, main_pc, response, admissions,
                    outcome, extra_anchors, revealed, valid_links, admitted,
                    saved_file, site, table >>

\* line 65 with lines 23-39: the page holds what it held at an earlier
\* request, if there was one
GetLinksOfSite ==
    /\ stack # << >>
    /\ Top.pc = "get_links"
    /\ fetch_calls' = [ fetch_calls EXCEPT ![Top.url] = @ + 1 ]
    /\ \E anchors \in ( IF site[Top.url] # Unserved THEN { site[Top.url] }
                         ELSE StaticSiteAnchors(revealed, extra_anchors) ) :
          /\ site' = [ site EXCEPT ![Top.url] = anchors ]
          /\ revealed' = Reveal(anchors, revealed)
          /\ extra_anchors' = IF site[Top.url] # Unserved THEN extra_anchors
                              ELSE extra_anchors + Extra(anchors)
          /\ markup' = anchors
          /\ stack' = SetTop([ Top EXCEPT !.pc = "loop", !.i = 1,
                                !.links = get_links(anchors, visited_urls) ])
    /\ requests_since_sleep' = requests_since_sleep + 1
    /\ UNCHANGED << visited_urls, case_studies, main_pc, response,
                    admissions, outcome, valid_links, admitted, saved_file,
                    table >>

NextSite ==
    \/ MainCrawl
    \/ Reject
    \/ Admit
    \/ FetchRaises
    \/ FetchServed
    \/ GetLinksOfSite
    \/ GetLinksOfSiteFails
    \/ LoopCall
    \/ LoopDone
    \/ MainSave

SpecSite == Init /\ [][NextSite]_vars

\* the interpreter goes on executing main() as long as a statement remains
FairSpecSite == SpecSite /\ WF_vars(NextSite)

-----------------------------------------------------------------------------
(* The enrichment scripts (src/main_compinfo*.py).  A cell of a table and a
   field of an API answer are sequences of tokens: a token is one digit, one
   space, the separator " - ", or a run of characters of one kind. *)

\* the crawler does not run
CrawlerIdle ==
    /\ visited_urls = { }
    /\ case_studies = << >>
    /\ stack = << >>
    /\ main_pc = "none"
    /\ response = NoResponse
    /\ fetch_calls = [ u \in URLs |-> 0 ]
    /\ admissions = [ u \in URLs |-> 0 ]
    /\ outcome = [ u \in URLs |-> "none" ]
    /\ extra_anchors = 0
    /\ revealed = 0
    /\ markup = << >>
    /\ valid_links = << >>
    /\ admitted = << >>
    /\ requests_since_sleep = 0
    /\ saved_file = << >>
    /\ site = [ u \in URLs |-> Unserved ]

\* pandas' missing value, and Python's None
NaN == << "<NaN>" >>
None == << "<None>" >>

NotAvailable == << "Not Available" >>

\* pd.isna
isna(cell) == cell = NaN \/ cell = None

Digits == { "0", "1", "2", "3", "4", "5", "6", "7", "8", "9" }

\* runs of Latin letters; characters by code point: U+D14C is in the Hangul
\* range AC00-D7AF, U+00C3 is one of special_chars
LatinRuns == { "Tesla", "Inc", "Acme", "M" }
CJKChars == { "U+D14C" }
SpecialChars == { "U+00C3" }

\* values of Python: a dict (its items in fields), a list, None
Dict(fields) == [ kind |-> "dict", fields |-> fields ]
JsonList == [ kind |-> "list", fields |-> << >> ]
NoneValue == [ kind |-> "None", fields |-> << >> ]

\* the row was not queried
NotAsked == [ kind |-> "not asked", fields |-> << >> ]

\* `if company_info:`
Truthy(value) ==
    \/ value.kind = "list"
    \/ value.kind = "dict" /\ DOMAIN value.fields # { }

\* dict.get(key)
dict_get(value, key) ==
    IF key \in DOMAIN value.fields THEN value.fields[key] ELSE None

\* structured_data[key] = cell
dict_set(value, key, cell) ==
    Dict([ k \in DOMAIN value.fields \cup { key } |->
             IF k = key THEN cell ELSE value.fields[k] ])

\* where the try block of get_company_info_from_perplexity raises, if it does:
\* requests.Timeout and ConnectionError at the POST, requests' JSONDecodeError at
\* response.json(), KeyError at ['choices'], openai.APIError at the completion,
\* json.JSONDecodeError at json.loads
Raises == { "Timeout", "ConnectionError", "requests.JSONDecodeError",
            "KeyError", "APIError", "json.JSONDecodeError" }

\* the subclasses of requests.RequestException among them
RequestExceptions == { "Timeout", "ConnectionError", "requests.JSONDecodeError" }

\* what a call of the API comes to: an exception, or the value json.loads makes
\* of the completion
ApiOutcomes(values) ==
    { [ raises |-> e, json |-> NoneValue ] : e \in Raises }
    \cup { [ raises |-> "nothing", json |-> v ] : v \in values }

\* the tables of at most n rows
TablesUpTo(rows, n) == UNION { [ 1..k -> rows ] : k \in 1..n }

\* the script has read its input file and enters its loop
Started(name, frame) ==
    [ script |-> name, pc |-> "loop", df |-> frame, updated_df |-> frame, idx |-> 1,
      company_info |-> NotAsked, answers |-> << >>, raised |-> << >>,
      output_file |-> << >> ]

\* the loop moves to the next row, having got `info` for this one
Advance(frame, info) ==
    [ table EXCEPT !.updated_df = frame, !.idx = @ + 1,
                   !.company_info = info,
                   !.answers = Append(@, info) ]

-----------------------------------------------------------------------------
(* main_compinfo.py *)

MissingNames == { << "Tesla" >>, << "Acme" >> }

\* the cells of original_company_name
MissingOriginals ==
    { NaN, NotAvailable, << "Not applicable" >>, << "Tesla", ", ", "Inc", "." >> }

MissingRows ==
    { [ initial_company_name |-> n, original_company_name |-> o,
        parent_company |-> NaN, parent_company_country |-> NaN,
        industry_naics_3_digit |-> NaN, industry_naics_4_digit |-> NaN,
        industry_naics_5_digit |-> NaN, revenue_2023_usd |-> NaN ] :
      n \in MissingNames, o \in MissingOriginals }

\* what json.loads may make of the completion
MissingJson ==
    { Dict([ original_company_name |-> << "Tesla", ", ", "Inc", "." >>,
             parent_company |-> << "Tesla", ", ", "Inc", "." >>,
             parent_company_country |-> << "US" >>,
             industry_naics_3_digit |-> << "3", "3", "6", " - ", "Transportation" >>,
             industry_naics_4_digit |-> << "3", "3", "6", "1", " - ", "Motor" >>,
             industry_naics_5_digit |-> << "3", "3", "6", "1", "1", " - ", "Automobile" >>,
             revenue_2023_usd |-> << "96,773 ", "M" >> ]),
      Dict([ original_company_name |-> << "Tesla", ", ", "Inc", "." >> ]),
      JsonList }

\* lines 136-145
MissingDefault ==
    Dict([ original_company_name |-> NotAvailable,
           parent_company |-> NotAvailable,
           parent_company_country |-> NotAvailable,
           industry_naics_3_digit |-> NotAvailable,
           industry_naics_4_digit |-> NotAvailable,
           industry_naics_5_digit |-> NotAvailable,
           revenue_2023_usd |-> NotAvailable ])

\* lines 15-145.  The return of lines 137-145 belongs to the handler of line
\* 133: the handlers of lines 129 and 131 print and the function ends without
\* a return statement.  Line 125 raises TypeError on a list.
get_company_info_from_perplexity(company_name, out) ==
    IF out.raises = "nothing" /\ out.json.kind = "dict"
    THEN dict_set(out.json, "initial_company_name", company_name)
    ELSE IF out.raises = "Timeout" THEN NoneValue
    ELSE IF out.raises \in RequestExceptions THEN NoneValue
    ELSE MissingDefault

\* lines 153-155
missing_mask(row) ==
    \/ isna(row.original_company_name)
    \/ row.original_company_name = NotAvailable
    \/ row.original_company_name = << "Not applicable" >>

\* lines 165-175
MissingUpdatedRow(row, company_info) ==
    IF Truthy(company_info)
    THEN [ initial_company_name |-> dict_get(company_info, "initial_company_name"),
           original_company_name |-> dict_get(company_info, "original_company_name"),
           parent_company |-> dict_get(company_info, "parent_company"),
           parent_company_country |-> dict_get(company_info, "parent_company_country"),
           industry_naics_3_digit |-> dict_get(company_info, "industry_naics_3_digit"),
           industry_naics_4_digit |-> dict_get(company_info, "industry_naics_4_digit"),
           industry_naics_5_digit |-> dict_get(company_info, "industry_naics_5_digit"),
           revenue_2023_usd |-> dict_get(company_info, "revenue_2023_usd") ]
    ELSE row

InitMissing ==
    /\ CrawlerIdle
    /\ \E frame \in TablesUpTo(MissingRows, MaxRows) :
          table = Started("main_compinfo", frame)

\* lines 158-178 for one row of the table; a row outside the mask is passed
\* over
MissingRow ==
    /\ table.script = "main_compinfo"
    /\ table.pc = "loop"
    /\ table.idx <= Len(table.df)
    /\ LET row == table.df[table.idx] IN
       IF missing_mask(row)
       THEN \E out \in ApiOutcomes(MissingJson) :
               LET company_info ==
                       get_company_info_from_perplexity(row.initial_company_name, out)
               IN table' = [ Advance([ table.updated_df EXCEPT ![table.idx] =
                                          MissingUpdatedRow(row, company_info) ],
                                     company_info)
                             EXCEPT !.raised = Append(@, out.raises) ]
       ELSE table' = [ Advance(table.updated_df, NotAsked)
                       EXCEPT !.raised = Append(@, "nothing") ]
    /\ UNCHANGED crawl_vars

\* lines 180-182
MissingSave ==
    /\ table.script = "main_compinfo"
    /\ table.pc = "loop"
    /\ table.idx > Len(table.df)
    /\ table' = [ table EXCEPT !.pc = "saved", !.output_file = table.updated_df ]
    /\ UNCHANGED crawl_vars

\* line 181 raises; lines 184-185
MissingSaveFails ==
    /\ table.script = "main_compinfo"
    /\ table.pc = "loop"
    /\ table.idx > Len(table.df)
    /\ table' = [ table EXCEPT !.pc = "failed" ]
    /\ UNCHANGED crawl_vars

NextMissing ==
    \/ MissingRow
    \/ MissingSave
    \/ MissingSaveFails

SpecMissing == InitMissing /\ [][NextMissing]_vars

-----------------------------------------------------------------------------
(* main_compinfo_update.py *)

UpdateNames == { << "Tesla" >>, << "Acme" >> }

GoodOriginal == << "Tesla", ", ", "Inc", "." >>
GoodRevenue == << "96,773 ", "M" >>

\* the cells of original_company_name and revenue_2023_usd; one of them at
\* most is not a good one
UpdateCells ==
    { << o, GoodRevenue >> :
        o \in { GoodOriginal, NaN, NotAvailable, << "Tesla", " ", "U+D14C" >>,
                << "Tesla", "U+00C3" >> } }
    \cup { << GoodOriginal, r >> :
        r \in { NaN, NotAvailable, << "Not Applicable" >>, << "96,773" >> } }

UpdateRows ==
    { [ initial_company_name |-> n, original_company_name |-> c[1],
        parent_company_country |-> << "US" >>, revenue_2023_usd |-> c[2] ] :
      n \in UpdateNames, c \in UpdateCells }

UpdateJson ==
    { Dict([ initial_company_name |-> << "Tesla", " ", "Motors" >>,
             original_company_name |-> GoodOriginal,
             parent_company_country |-> << "US" >>,
             revenue_2023_usd |-> GoodRevenue ]),
      Dict([ original_company_name |-> GoodOriginal ]),
      JsonList }

\* lines 14-105; line 95 raises TypeError on a list
get_company_info_from_perplexity_update(company_name, out) ==
    IF out.raises = "nothing" /\ out.json.kind = "dict"
    THEN dict_set(out.json, "initial_company_name", company_name)
    ELSE Dict([ initial_company_name |-> company_name,
                original_company_name |-> NotAvailable,
                parent_company_country |-> NotAvailable,
                revenue_2023_usd |-> NotAvailable ])

\* lines 107-144
contains_mixed_characters(text) ==
    IF isna(text) THEN FALSE
    ELSE LET has_latin == \E k \in 1..Len(text) : text[k] \in LatinRuns
             has_cjk == \E k \in 1..Len(text) : text[k] \in CJKChars
             has_special == \E k \in 1..Len(text) : text[k] \in SpecialChars
         IN (has_latin /\ has_cjk) \/ has_special

\* str.endswith('M')
EndsWithM(text) == text # << >> /\ text[Len(text)] = "M"

\* lines 159-165
UpdateCondition(row) ==
    \/ isna(row.original_company_name)
    \/ row.original_company_name = NotAvailable
    \/ contains_mixed_characters(row.original_company_name)
    \/ isna(row.revenue_2023_usd)
    \/ row.revenue_2023_usd = NotAvailable
    \/ row.revenue_2023_usd = << "Not Applicable" >>
    \/ ~ EndsWithM(row.revenue_2023_usd)

\* the name taken from the wrong key of the answer
UpdateOverwritingName(old, company_name, company_info) ==
    IF Truthy(company_info)
    THEN [ old EXCEPT
             !.initial_company_name = dict_get(company_info, "original_company_name"),
             !.original_company_name = dict_get(company_info, "original_company_name"),
             !.parent_company_country = dict_get(company_info, "parent_company_country"),
             !.revenue_2023_usd = dict_get(company_info, "revenue_2023_usd") ]
    ELSE old

\* lines 172-177
UpdateUpdatedRow(old, company_name, company_info) ==
    IF Truthy(company_info)
    THEN [ old EXCEPT
             !.initial_company_name = company_name,
             !.original_company_name = dict_get(company_info, "original_company_name"),
             !.parent_company_country = dict_get(company_info, "parent_company_country"),
             !.revenue_2023_usd = dict_get(company_info, "revenue_2023_usd") ]
    ELSE old

InitUpdate ==
    /\ CrawlerIdle
    /\ \E frame \in TablesUpTo(UpdateRows, MaxRows) :
          table = Started("main_compinfo_update", frame)

\* lines 155-180 for one row
UpdateRow ==
    /\ table.script = "main_compinfo_update"
    /\ table.pc = "loop"
    /\ table.idx <= Len(table.df)
    /\ LET row == table.df[table.idx]
           company_name == row.initial_company_name
       IN IF UpdateCondition(row)
          THEN \E out \in ApiOutcomes(UpdateJson) :
                  LET company_info ==
                          get_company_info_from_perplexity_update(company_name, out)
                  IN table' = Advance([ table.updated_df EXCEPT ![table.idx] =
                                           UpdateUpdatedRow(@, company_name, company_info) ],
                                      company_info)
          ELSE table' = Advance(table.updated_df, NotAsked)
    /\ UNCHANGED crawl_vars

\* lines 182-189: the columns are put in order and the table is written
UpdateSave ==
    /\ table.script = "main_compinfo_update"
    /\ table.pc = "loop"
    /\ table.idx > Len(table.df)
    /\ table' = [ table EXCEPT !.pc = "saved", !.output_file = table.updated_df ]
    /\ UNCHANGED crawl_vars

\* line 188 raises; lines 191-192
UpdateSaveFails ==
    /\ table.script = "main_compinfo_update"
    /\ table.pc = "loop"
    /\ table.idx > Len(table.df)
    /\ table' = [ table EXCEPT !.pc = "failed" ]
    /\ UNCHANGED crawl_vars

NextUpdate ==
    \/ UpdateRow
    \/ UpdateSave
    \/ UpdateSaveFails

SpecUpdate == InitUpdate /\ [][NextUpdate]_vars

-----------------------------------------------------------------------------
(* main_compinfo_compliment.py *)

GoodNaics3 == << "3", "3", "4", " - ", "Computer and Electronic Product Manufacturing" >>
GoodNaics4 == << "3", "3", "4", "1", " - ", "Computer and Peripheral Equipment Manufacturing" >>
GoodNaics5 == << "3", "3", "4", "1", "1", " - ", "Computer and Peripheral Equipment Manufacturing" >>

\* a code of two digits in the place of the 3-digit code
ShortNaics3 == << "3", "3", " - ", "Manufacturing" >>

NaicsRows ==
    { [ initial_company_name |-> << "Tesla" >>,
        industry_naics_3_digit |-> n3, industry_naics_4_digit |-> n4,
        industry_naics_5_digit |-> n5, revenue_2023_usd |-> r ] :
      n3 \in { GoodNaics3, NaN, NotAvailable, ShortNaics3 },
      n4 \in { GoodNaics4, NotAvailable },
      n5 \in { GoodNaics5, NaN },
      r \in { GoodRevenue, NotAvailable } }

NaicsJson ==
    { Dict([ industry_naics_3_digit |-> << "3", "3", "6", " - ", "Transportation" >>,
             industry_naics_4_digit |-> << "3", "3", "6", "1", " - ", "Motor" >>,
             industry_naics_5_digit |-> << "3", "3", "6", "1", "1", " - ", "Automobile" >>,
             revenue_latest |-> << "96,773 ", "M", " (2023)" >> ]),
      Dict([ revenue_latest |-> << "96,773 ", "M", " (2023)" >> ]),
      Dict(<< >>),
      JsonList }

\* lines 14-118: the value of json.loads is returned as it is
get_company_info_from_perplexity_compliment(company_name, out) ==
    IF out.raises = "nothing" THEN out.json
    ELSE Dict([ industry_naics_3_digit |-> NotAvailable,
                industry_naics_4_digit |-> NotAvailable,
                industry_naics_5_digit |-> NotAvailable,
                revenue_latest |-> NotAvailable ])

\* code.split(' - ')[0]
BeforeSeparator(code) ==
    LET at == { k \in 1..Len(code) : code[k] = " - " } IN
    IF at = { } THEN code
    ELSE SubSeq(code, 1, (CHOOSE k \in at : \A j \in at : k <= j) - 1)

\* lines 120-130
validate_naics_code(code, expected_length) ==
    IF code = NotAvailable THEN TRUE
    ELSE LET code_part == Strip(BeforeSeparator(code)) IN
         /\ Len(code_part) = expected_length
         /\ \A k \in 1..Len(code_part) : code_part[k] \in Digits

\* lines 145-163
needs_update(row) ==
    \/ isna(row.industry_naics_3_digit)
    \/ ~ validate_naics_code(row.industry_naics_3_digit, 3)
    \/ isna(row.industry_naics_4_digit)
    \/ ~ validate_naics_code(row.industry_naics_4_digit, 4)
    \/ isna(row.industry_naics_5_digit)
    \/ ~ validate_naics_code(row.industry_naics_5_digit, 5)
    \/ row.revenue_2023_usd = NotAvailable
    \/ isna(row.revenue_2023_usd)

\* the tests of lines 174, 176, 178 and 182
Missing(cell) == isna(cell) \/ cell = NotAvailable

\* lines 174-183 reach company_info.get, which a list does not have
GetRaises(row, company_info) ==
    /\ company_info.kind = "list"
    /\ \/ Missing(row.industry_naics_3_digit)
       \/ Missing(row.industry_naics_4_digit)
       \/ Missing(row.industry_naics_5_digit)
       \/ Missing(row.revenue_2023_usd)

\* lines 172-183
NaicsUpdatedRow(old, row, company_info) ==
    IF Truthy(company_info)
    THEN [ old EXCEPT
             !.industry_naics_3_digit =
                 IF Missing(row.industry_naics_3_digit)
                 THEN dict_get(company_info, "industry_naics_3_digit") ELSE @,
             !.industry_naics_4_digit =
                 IF Missing(row.industry_naics_4_digit)
                 THEN dict_get(company_info, "industry_naics_4_digit") ELSE @,
             !.industry_naics_5_digit =
                 IF Missing(row.industry_naics_5_digit)
                 THEN dict_get(company_info, "industry_naics_5_digit") ELSE @,
             !.revenue_2023_usd =
                 IF Missing(row.revenue_2023_usd)
                 THEN dict_get(company_info, "revenue_latest") ELSE @ ]
    ELSE old

InitNaics ==
    /\ CrawlerIdle
    /\ \E frame \in TablesUpTo(NaicsRows, MaxRows) :
          table = Started("main_compinfo_compliment", frame)

\* lines 141-186 for one row; AttributeError leaves the loop for lines 193-194
NaicsRow ==
    /\ table.script = "main_compinfo_compliment"
    /\ table.pc = "loop"
    /\ table.idx <= Len(table.df)
    /\ LET row == table.df[table.idx] IN
       IF needs_update(row)
       THEN \E out \in ApiOutcomes(NaicsJson) :
               LET company_info ==
                       get_company_info_from_perplexity_compliment(
                           row.initial_company_name, out)
               IN IF GetRaises(row, company_info)
                  THEN table' = [ table EXCEPT !.pc = "failed",
                                               !.company_info = company_info ]
                  ELSE table' = Advance([ table.updated_df EXCEPT ![table.idx] =
                                             NaicsUpdatedRow(@, row, company_info) ],
                                        company_info)
       ELSE table' = Advance(table.updated_df, NotAsked)
    /\ UNCHANGED crawl_vars

\* lines 188-191
NaicsSave ==
    /\ table.script = "main_compinfo_compliment"
    /\ table.pc = "loop"
    /\ table.idx > Len(table.df)
    /\ table' = [ table EXCEPT !.pc = "saved", !.output_file = table.updated_df ]
    /\ UNCHANGED crawl_vars

\* line 190 raises; lines 193-194
NaicsSaveFails ==
    /\ table.script = "main_compinfo_compliment"
    /\ table.pc = "loop"
    /\ table.idx > Len(table.df)
    /\ table' = [ table EXCEPT !.pc = "failed" ]
    /\ UNCHANGED crawl_vars

NextNaics ==
    \/ NaicsRow
    \/ NaicsSave
    \/ NaicsSaveFails

SpecNaics == InitNaics /\ [][NextNaics]_vars

-----------------------------------------------------------------------------
(* main_with_nextbutton.py.  table holds the position of
   scrape_kinaxis_case_studies (pc), page, all_case_studies, the URLs
   requested so far in order (requested), what the last request gave
   (response), how many cards the responses held so far (cards_served), and
   what the function wrote and returned. *)

\* base_url of line 14
scrape_base_url == base_url \o << "/en/customers" >>

\* line 24
PageUrl(page) ==
    IF page > 1 THEN scrape_base_url \o << "?page=", page >> ELSE scrape_base_url

\* the status codes of the responses
ScrapeStatuses == { 200, 404, 503 }

\* response.raise_for_status() raises HTTPError, a RequestException
raise_for_status(status) == 400 <= status /\ status < 600

\* a <div class="card">: its first <h3> and its first <p>, if any
Cards ==
    { [ h3 |-> << " ", "Acme", " " >>, p |-> << ContentText, " " >> ],
      [ h3 |-> << "Tesla" >>, p |-> << " ", ContentText >> ],
      [ h3 |-> NoTag, p |-> << ContentText >> ],
      [ h3 |-> << "Acme" >>, p |-> NoTag ] }

\* the strings of the <a> elements of a page, in document order
AnchorStrings ==
    { << >>, << << "Previous" >> >>, << << "Previous" >>, << "Next" >> >> }

\* what requests.get may give: an exception of the transport, or a response
\* of at most `most` cards
ScrapeResponses(most) ==
    { [ raised |-> TRUE, status |-> 0, cards |-> << >>, anchors |-> << >> ] }
    \cup { [ raised |-> FALSE, status |-> st, cards |-> c, anchors |-> a ] :
           st \in ScrapeStatuses, c \in SeqUpTo(Cards, most), a \in AnchorStrings }

\* no request made yet
NoPage == [ raised |-> FALSE, status |-> 0, cards |-> << >>, anchors |-> << >> ]

\* lines 44-59: the case studies of the cards that hold an <h3> and a <p>
RECURSIVE ExtractCards(_, _)
ExtractCards(cards, page) ==
    IF cards = << >> THEN << >>
    ELSE LET card == Head(cards)
             rest == ExtractCards(Tail(cards), page)
         IN IF card.h3 # NoTag /\ card.p # NoTag
            THEN << [ company_name |-> Strip(card.h3),
                      description |-> Strip(card.p),
                      page_number |-> page ] >> \o rest
            ELSE rest

\* line 62 finding an <a> of any string
find_next_any_anchor(anchors) == anchors # << >>

\* line 62: soup.find("a", string="Next")
find_next(anchors) == \E k \in 1..Len(anchors) : anchors[k] = << "Next" >>

\* nothing written
NotWritten == [ written |-> FALSE, rows |-> << >> ]

\* pd.DataFrame(all_case_studies) in a file or returned
Written(cases) == [ written |-> TRUE, rows |-> cases ]

\* lines 14-17
InitScrape ==
    /\ CrawlerIdle
    /\ table = [ script |-> "main_with_nextbutton", pc |-> "request", page |-> 1,
                 all_case_studies |-> << >>, requested |-> << >>,
                 response |-> NoPage, cards_served |-> 0,
                 csv |-> NotWritten, xlsx |-> NotWritten, df |-> NotWritten ]

\* one pass of the loop of lines 20-68, to the break, to the handler of line
\* 70 or to the sleep of line 68
ScrapePage ==
    /\ table.script = "main_with_nextbutton"
    /\ table.pc = "request"
    /\ \E r \in ScrapeResponses(MaxCards - table.cards_served) :
         LET got == [ table EXCEPT !.requested = Append(@, PageUrl(table.page)),
                                   !.response = r,
                                   !.cards_served = @ + Len(r.cards) ]
             cases == table.all_case_studies \o ExtractCards(r.cards, table.page)
         IN table' =
              IF r.raised \/ raise_for_status(r.status)
              THEN [ got EXCEPT !.pc = "save" ]                    \* lines 70-71
              ELSE IF r.cards = << >>
              THEN [ got EXCEPT !.pc = "save" ]                    \* lines 40-41
              ELSE IF ~ find_next(r.anchors)
              THEN [ got EXCEPT !.pc = "save",                     \* lines 63-64
                                !.all_case_studies = cases ]
              ELSE [ got EXCEPT !.page = @ + 1,                    \* lines 66-68
                                !.all_case_studies = cases ]
    /\ UNCHANGED crawl_vars

\* lines 74-80
ScrapeSave ==
    /\ table.script = "main_with_nextbutton"
    /\ table.pc = "save"
    /\ table' = [ table EXCEPT !.pc = "returned",
                               !.csv = Written(table.all_case_studies),
                               !.xlsx = Written(table.all_case_studies),
                               !.df = Written(table.all_case_studies) ]
    /\ UNCHANGED crawl_vars

\* line 77 raises (the file cannot be written): nothing handles it
ScrapeCsvRaises ==
    /\ table.script = "main_with_nextbutton"
    /\ table.pc = "save"
    /\ table' = [ table EXCEPT !.pc = "raised" ]
    /\ UNCHANGED crawl_vars

\* line 78 raises (no Excel writer, or the file cannot be written)
ScrapeExcelRaises ==
    /\ table.script = "main_with_nextbutton"
    /\ table.pc = "save"
    /\ table' = [ table EXCEPT !.pc = "raised",
                               !.csv = Written(table.all_case_studies) ]
    /\ UNCHANGED crawl_vars

NextScrape ==
    \/ ScrapePage
    \/ ScrapeSave
    \/ ScrapeCsvRaises
    \/ ScrapeExcelRaises

SpecScrape == InitScrape /\ [][NextScrape]_vars

-----------------------------------------------------------------------------
Next ==
    \/ MainCrawl
    \/ Reject
    \/ Admit
    \/ FetchRaises
    \/ FetchParses
    \/ GetLinks
    \/ LoopCall
    \/ LoopDone
    \/ MainSave

Spec == Init /\ [][Next]_vars

-----------------------------------------------------------------------------
(* Notions the properties below are stated with *)

RECURSIVE SumOver(_, _)
SumOver(f, S) ==
    IF S = { } THEN 0
    ELSE LET x == CHOOSE y \in S : TRUE IN f[x] + SumOver(f, S \ { x })

\* the indices of the records made for url
RecordsOf(url) == { k \in 1..Len(case_studies) : case_studies[k].url = url }

\* the number of occurrences of x in the sequence s
Count(s, x) == Cardinality({ k \in 1..Len(s) : s[k] = x })

\* the frame at position n waits for the call it made, or is the innermost one
Innermost(n) == n = Len(stack)

\* the frame at position n has made k calls that have all returned
Returned(n) == IF Innermost(n) THEN stack[n].i - 1 ELSE stack[n].i - 2

-----------------------------------------------------------------------------
(* C1: no URL is requested over HTTP more than once; at the end of a run the
   number of requests equals the number of visited URLs. *)
C1_FetchedOnce ==
    /\ \A u \in URLs : fetch_calls[u] <= 1
    /\ main_pc = "done" => SumOver(fetch_calls, URLs) = Cardinality(visited_urls)

(* C2: a call with depth > 3, or with a URL already visited, returns at once:
   no request, no insertion into visited_urls, no record, no recursive call. *)
C2_RejectedCallIsNoOp ==
    [][ ( /\ stack # << >>
          /\ Top.pc = "enter"
          /\ (Top.depth > MaxDepth \/ Top.url \in visited_urls) )
        => /\ fetch_calls' = fetch_calls
           /\ visited_urls' = visited_urls
           /\ admissions' = admissions
           /\ case_studies' = case_studies
           /\ stack' = SubSeq(stack, 1, Len(stack) - 1) ]_vars

\* a page at depth 3 has called a URL never visited, and the call has returned
\* leaving it unvisited and unrequested
C2_Witness ==
    /\ stack # << >>
    /\ Top.pc = "loop"
    /\ Top.depth = MaxDepth
    /\ Top.i > 1
    /\ Top.links[Top.i - 1] \notin visited_urls
    /\ fetch_calls[Top.links[Top.i - 1]] = 0

(* C3: a URL is in visited_urls before its first request is issued and stays
   there when the request fails: every URL requested, or about to be, is
   visited, and no URL is admitted twice, not even one that links to itself
   or to a page still in flight. *)
C3_VisitedBeforeFetch ==
    /\ \A u \in URLs : fetch_calls[u] > 0 => u \in visited_urls
    /\ \A n \in 1..Len(stack) :
          stack[n].pc \in { "fetch", "get_links", "loop" }
              => stack[n].url \in visited_urls
    /\ \A u \in URLs : outcome[u] = "raised" => u \in visited_urls
    /\ \A u \in URLs : admissions[u] <= 1

\* a page whose request failed is visited, and the page being crawled has just
\* been found to link to itself
C3_Witness ==
    /\ \E u \in URLs : outcome[u] = "raised" /\ u \in visited_urls
    /\ stack # << >>
    /\ Top.pc = "loop"
    /\ \E k \in 1..Len(markup) :
          markup[k] # NoHref /\ urljoin(base_url, markup[k]) = Top.url
    /\ admissions[Top.url] = 1

(* C4: when the request or the parse of an admitted page raises inside
   crawl_page, the call returns normally to its caller, whose frame is left
   as it was, so that its loop goes on with the next link; no record exists
   for that page and none of its links is followed; a seed that raises ends
   the run with no record. *)
C4_RaiseIsSwallowed ==
    /\ [][ ( /\ stack # << >>
             /\ Top.pc = "fetch"
             /\ outcome'[Top.url] = "raised" )
           => /\ stack' = SubSeq(stack, 1, Len(stack) - 1)
              /\ case_studies' = case_studies
              /\ main_pc' = main_pc ]_vars
    /\ [](\A u \in URLs : outcome[u] = "raised" =>
             /\ RecordsOf(u) = { }
             /\ \A n \in 1..Len(stack) :
                   stack[n].url = u => stack[n].pc = "enter")
    /\ [](main_pc = "done" /\ outcome[SeedURL] = "raised"
             => case_studies = << >> /\ visited_urls = { SeedURL })

\* after a page's request raised, its parent has gone on to call its next link
C4_Witness ==
    /\ Len(stack) >= 2
    /\ stack[Len(stack) - 1].i > 2
    /\ outcome[stack[Len(stack) - 1].links[stack[Len(stack) - 1].i - 2]] = "raised"
    /\ Top.url # stack[Len(stack) - 1].links[stack[Len(stack) - 1].i - 2]
    /\ Top.pc = "fetch"

(* C5: a page whose response has a non-success status is handled like a
   request that raises: no record for it and no link discovery from it. *)
C5_NonSuccessIsFailure ==
    response.status = "404 Not Found" =>
        /\ RecordsOf(response.url) = { }
        /\ ~ (stack # << >> /\ Top.url = response.url /\ Top.pc = "get_links")

(* C6: for a page whose extracted title or content is empty no record is
   appended, and its links are discovered and each of them is passed to
   crawl_page with depth + 1. *)
C6_SkippedPageLinksFollowed ==
    /\ [](\A u \in URLs : outcome[u] = "skipped" => RecordsOf(u) = { })
    /\ [](response.url # << >> /\
          (response.h1 = NoTag \/ Strip(response.h1) = << >> \/
           response.article = NoTag \/ Strip(response.article) = << >>)
             => /\ outcome[response.url] = "skipped"
                /\ stack # << >>
                /\ Top.url = response.url
                /\ Top.pc = "get_links")
    /\ [][ ( /\ stack # << >>
             /\ Top.pc = "loop"
             /\ outcome[Top.url] = "skipped"
             /\ Top.i <= Len(Top.links) )
           => /\ Len(stack') = Len(stack) + 1
              /\ stack'[Len(stack')].url = Top.links[Top.i]
              /\ stack'[Len(stack')].depth = Top.depth + 1
              /\ stack'[Len(stack')].pc = "enter"
              /\ stack'[Len(stack)].i = Top.i + 1 ]_vars

\* a page without title or content has had all its links, two or more, called
C6_Witness ==
    /\ stack # << >>
    /\ Top.pc = "loop"
    /\ outcome[Top.url] = "skipped"
    /\ Len(Top.links) >= 2
    /\ Top.i > Len(Top.links)
    /\ RecordsOf(Top.url) = { }

(* C7: a page parsed with a non-empty title and a non-empty content has
   exactly one record, holding its URL, the trimmed text of its first h1 and
   the trimmed text of its first article; no two records share a URL, and a
   record, once appended, is never changed or removed. *)
C7_OneRecordPerPage ==
    /\ [](\A u \in URLs : outcome[u] = "kept" => Cardinality(RecordsOf(u)) = 1)
    /\ [](\A u \in URLs : RecordsOf(u) # { } => outcome[u] = "kept")
    /\ [](response.url # << >> /\ response.h1 # NoTag /\ response.article # NoTag
          /\ Strip(response.h1) # << >> /\ Strip(response.article) # << >>
             => /\ outcome[response.url] = "kept"
                /\ \E k \in 1..Len(case_studies) :
                      /\ case_studies[k].url = response.url
                      /\ case_studies[k].title = Strip(response.h1)
                      /\ case_studies[k].content = Strip(response.article))
    /\ [](\A j, k \in 1..Len(case_studies) :
             case_studies[j].url = case_studies[k].url => j = k)
    /\ [][ /\ Len(case_studies') >= Len(case_studies)
           /\ \A k \in 1..Len(case_studies) : case_studies'[k] = case_studies[k] ]_vars

\* the run has ended with two records, the first one of the seed with the
\* trimmed title and content
C7_Witness ==
    /\ main_pc = "done"
    /\ Len(case_studies) >= 2
    /\ case_studies[1] = [ url |-> SeedURL, title |-> << TitleText >>,
                           content |-> << ContentText >> ]

\* a list of three links: one URL twice and another URL once
TwiceAndOnce(links) ==
    /\ Len(links) = 3
    /\ \E a, b \in URLs : a # b /\ Count(links, a) = 2 /\ Count(links, b) = 1

\* for the frame at position n: every link whose call has returned has been
\* admitted exactly once, and the call in progress, if any, is the call for
\* the link before position i, made with depth + 1, and has not passed line 45
\* if that link occurred earlier in the list
EachAdmittedOnce(n) ==
    /\ \A k \in 1..Returned(n) : admissions[stack[n].links[k]] = 1
    /\ ~ Innermost(n) =>
          LET k == stack[n].i - 1 IN
          /\ stack[n + 1].url = stack[n].links[k]
          /\ stack[n + 1].depth = stack[n].depth + 1
          /\ (\E j \in 1..(k - 1) : stack[n].links[j] = stack[n].links[k])
                => stack[n + 1].pc = "enter"

(* C8 as stated: for a page whose discovered list holds A twice and B once,
   crawl_page is called for each occurrence, A and B are each admitted exactly
   once, and the second call for A does not pass the visited check. *)
C8_DuplicateAdmittedOnce ==
    \A n \in 1..Len(stack) :
        stack[n].pc = "loop" /\ TwiceAndOnce(stack[n].links)
            => EachAdmittedOnce(n)

(* C8 as amended: the same for a page admitted at depth 0, 1 or 2; the links of
   a page at depth 3 are called with depth 4 and none of them is admitted. *)
C8_DuplicateAdmittedOnceAboveMaxDepth ==
    \A n \in 1..Len(stack) :
        stack[n].pc = "loop" /\ TwiceAndOnce(stack[n].links)
        /\ stack[n].depth < MaxDepth
            => EachAdmittedOnce(n)

\* a page at depth 0..2 has finished the loop over a list A, A, B
C8_Witness ==
    /\ stack # << >>
    /\ Top.pc = "loop"
    /\ Top.depth < MaxDepth
    /\ TwiceAndOnce(Top.links)
    /\ Top.links[1] = Top.links[2]
    /\ Top.i = 4
    /\ admissions[Top.links[1]] = 1
    /\ admissions[Top.links[3]] = 1

-----------------------------------------------------------------------------
(* get_links alone (SpecLinks) *)

\* the resolved URLs of the anchors that have an href urljoin accepts, those
\* kept that start with the origin and are not visited, in document order
ExpectedLinks(anchors, visited) ==
    LET hrefs == SelectSeq(anchors, LAMBDA a : a # NoHref)
        good == SelectSeq(hrefs, LAMBDA h : urljoin(base_url, h) # UrlError)
        resolved == [ k \in 1..Len(good) |-> urljoin(base_url, good[k]) ]
    IN SelectSeq(resolved,
                 LAMBDA u : StartsWith(u, base_url) /\ u \notin visited)

\* an href that is blank, or that no URL can be made of
Malformed(href) == href = HrefBlank \/ href = HrefBad

(* C9: get_links returns, in document order, exactly the resolved URLs of the
   page's anchors that start with the origin and are not visited, a repeated
   one as often as it occurs. *)
C9_ExactlyTheValidLinks ==
    main_pc = "returned" => valid_links = ExpectedLinks(markup, visited_urls)

(* C10: malformed and missing hrefs are skipped without effect on the other
   links: the result is what the page without them would give; for the links
   /a, other.com/b and an href of three spaces it is the list with /a alone. *)
C10_MalformedSkipped ==
    main_pc = "returned" =>
        /\ valid_links =
              ExpectedLinks(SelectSeq(markup, LAMBDA a : ~ Malformed(a)), visited_urls)
        /\ (markup = << HrefA, HrefOther, HrefBlank >> /\ visited_urls = { }
               => valid_links = << UrlA >>)

-----------------------------------------------------------------------------
\* the position of x in the sequence s, or 0
Position(s, x) ==
    IF \E k \in 1..Len(s) : s[k] = x
    THEN CHOOSE k \in 1..Len(s) : s[k] = x /\ \A j \in 1..(k - 1) : s[j] # x
    ELSE 0

(* C11: the traversal is depth-first and left to right.  A call that is not
   the innermost waits, unchanged, in its loop for the call it made for the
   link before position i; only the innermost call is admitted, calls, or
   returns; the calls of a page are made for links[1], links[2], ... in that
   order, and the page returns to its parent only after the last of them. *)
C11_DepthFirstLeftToRight ==
    /\ [](\A n \in 1..(Len(stack) - 1) :
             /\ stack[n].pc = "loop"
             /\ stack[n].i - 1 \in 1..Len(stack[n].links)
             /\ stack[n + 1].url = stack[n].links[stack[n].i - 1])
    /\ [][ \A n \in 1..(Len(stack) - 1) :
              n <= Len(stack') => stack'[n] = stack[n] ]_vars
    /\ [][ admitted' # admitted =>
              /\ stack # << >>
              /\ admitted' = Append(admitted, Top.url)
              /\ Len(stack') = Len(stack) ]_vars
    /\ [][ stack # << >> /\ Top.pc = "get_links" =>
              /\ Len(stack') = Len(stack)
              /\ stack'[Len(stack)].pc = "loop"
              /\ stack'[Len(stack)].i = 1 ]_vars
    /\ [][ stack # << >> /\ Len(stack') > Len(stack) =>
              /\ Top.pc = "loop"
              /\ Top.i \in 1..Len(Top.links)
              /\ Len(stack') = Len(stack) + 1
              /\ stack'[Len(stack)] = [ Top EXCEPT !.i = Top.i + 1 ]
              /\ stack'[Len(stack')].url = Top.links[Top.i]
              /\ stack'[Len(stack')].pc = "enter" ]_vars
    /\ [][ stack # << >> /\ Top.pc = "loop" /\ Len(stack') < Len(stack) =>
              /\ Top.i = Len(Top.links) + 1
              /\ stack' = SubSeq(stack, 1, Len(stack) - 1) ]_vars

\* the seed has two links; the first was admitted and so was a page it links
\* to; only then is the call for the second link made
C11_Witness ==
    /\ Len(stack) = 2
    /\ stack[1].i = 3
    /\ Top.pc = "enter"
    /\ Top.url \notin visited_urls
    /\ Len(admitted) = 3
    /\ admitted[2] = stack[1].links[1]
    /\ admitted[3] # stack[1].links[2]

(* C12: the seed call has depth 0 and every recursive call its caller's depth
   plus 1; a call that has passed line 45 has a depth from 0 to 3, so at most
   4 such calls are in progress at a time. *)
C12_DepthPlusOne ==
    /\ \A n \in 1..Len(stack) : stack[n].depth = n - 1
    /\ stack # << >> => stack[1].url = SeedURL
    /\ \A n \in 1..Len(stack) :
          stack[n].pc # "enter" => stack[n].depth \in 0..MaxDepth
    /\ Cardinality({ n \in 1..Len(stack) : stack[n].pc # "enter" }) <= MaxDepth + 1

\* four admitted calls are in progress and the innermost has made a call with
\* depth 4
C12_Witness ==
    /\ Len(stack) = MaxDepth + 2
    /\ Top.pc = "enter"
    /\ Top.depth = MaxDepth + 1
    /\ \A n \in 1..(MaxDepth + 1) : stack[n].pc = "loop"

(* C13: no step removes a URL from visited_urls, and the only step that adds
   one is the admission at lines 45-48, which adds the URL of the call. *)
C13_VisitedOnlyGrows ==
    [][ /\ visited_urls \subseteq visited_urls'
        /\ visited_urls' # visited_urls =>
              /\ stack # << >>
              /\ Top.pc = "enter"
              /\ Top.depth <= MaxDepth
              /\ Top.url \notin visited_urls
              /\ visited_urls' = visited_urls \cup { Top.url }
              /\ stack' = [ stack EXCEPT ![Len(stack)].pc = "fetch" ] ]_vars

\* the run has ended with four or more URLs visited, one of which failed
C13_Witness ==
    /\ main_pc = "done"
    /\ Cardinality(visited_urls) >= 4
    /\ \E u \in visited_urls : outcome[u] = "raised"
    /\ \E u \in visited_urls : outcome[u] = "skipped"

\* the page of u, as served, holds a link that resolves to v
LinksTo(u, v) ==
    /\ site[u] # Unserved
    /\ \E k \in 1..Len(site[u]) :
          site[u][k] # NoHref /\ urljoin(base_url, site[u][k]) = v

\* the URLs reached from the seed through at most n same-origin links
RECURSIVE Within(_)
Within(n) ==
    IF n = 0 THEN { SeedURL }
    ELSE Within(n - 1) \cup
         { v \in URLs : StartsWith(v, base_url) /\
                         \E u \in Within(n - 1) : LinksTo(u, v) }

(* C14: a politeness delay elapses between any two consecutive HTTP requests
   of a run: no second request is issued before time.sleep has been called
   since the one before. *)
C14_PauseBetweenRequests == requests_since_sleep <= 1

(* C15: a crawl run completes, whatever the links of the site, cycles
   included, and whichever requests raise: main() reaches the end of
   save_results, and the recursion never holds more frames than the four
   admitted calls and one call about to be rejected. *)
C15_CrawlTerminates ==
    /\ <>(main_pc = "done")
    /\ [](Len(stack) <= MaxDepth + 2)

\* a run has ended on a site with a cycle through four pages: the seed links
\* to a page, that one to a second, that one to a third, which links back to
\* the seed; the request of a fifth page raised
C15_Witness ==
    /\ main_pc = "done"
    /\ Len(admitted) >= 4
    /\ LinksTo(admitted[1], admitted[2])
    /\ LinksTo(admitted[2], admitted[3])
    /\ LinksTo(admitted[3], admitted[4])
    /\ LinksTo(admitted[4], admitted[1])
    /\ \E u \in visited_urls : outcome[u] = "raised"

(* C16: the records are in the order their pages were admitted, and
   save_results writes the title line, then one block per record in that same
   order: heading, content, source link, rule. *)
C16_RecordsInAdmissionOrder ==
    /\ \A k \in 1..Len(case_studies) : Position(admitted, case_studies[k].url) > 0
    /\ \A j, k \in 1..Len(case_studies) :
          j < k => Position(admitted, case_studies[j].url)
                       < Position(admitted, case_studies[k].url)
    /\ main_pc = "done" =>
          /\ Len(saved_file) = 1 + 4 * Len(case_studies)
          /\ saved_file[1] = << "# Kinaxis Case Studies", "\n\n" >>
          /\ \A k \in 1..Len(case_studies) :
                /\ saved_file[4 * k - 2] =
                      << "## " >> \o case_studies[k].title \o << "\n\n" >>
                /\ saved_file[4 * k - 1] = case_studies[k].content \o << "\n\n" >>
                /\ saved_file[4 * k] =
                      << "[Source](" >> \o case_studies[k].url \o << ")", "\n\n" >>
                /\ saved_file[4 * k + 1] = << "---", "\n\n" >>

\* the file has been written with two records, between whose pages a page
\* without record was admitted
C16_Witness ==
    /\ main_pc = "done"
    /\ Len(case_studies) = 2
    /\ Len(admitted) >= 3
    /\ case_studies[1].url = admitted[1]
    /\ case_studies[2].url = admitted[3]
    /\ Len(saved_file) = 9

\* every page requested so far was served, to crawl_page and to get_links
NoFetchFailure == \A u \in visited_urls : site[u] # Unserved

(* C20: when a run without fetch failure ends, visited_urls holds every URL
   that a path of at most 3 same-origin links reaches from the seed. *)
C20_VisitsAllWithinMaxDepth ==
    main_pc = "done" /\ NoFetchFailure => Within(MaxDepth) \subseteq visited_urls

-----------------------------------------------------------------------------
(* The enrichment scripts *)

(* C17: when the call of the API fails (timeout, network error, malformed
   response, JSON parse error), get_company_info_from_perplexity returns a
   record whose fields are all 'Not Available': never None. *)
C17_FailureGivesSentinelRecord ==
    \A k \in 1..Len(table.answers) :
        table.raised[k] \in Raises =>
            /\ table.answers[k].kind = "dict"
            /\ DOMAIN table.answers[k].fields # { }
            /\ \A f \in DOMAIN table.answers[k].fields :
                  table.answers[k].fields[f] = NotAvailable

\* the NAICS columns and the length of the code of each
NaicsColumns ==
    { << "industry_naics_3_digit", 3 >>, << "industry_naics_4_digit", 4 >>,
      << "industry_naics_5_digit", 5 >> }

(* C18: in the table main_compinfo_compliment writes, every NAICS cell that
   was NaN, 'Not Available' or not a code of its length in the input holds
   the value the API returned for its row, which was queried. *)
C18_MissingOrIncorrectNaicsUpdated ==
    table.pc = "saved" =>
        \A k \in 1..Len(table.df) : \A column \in NaicsColumns :
            LET cell == table.df[k][column[1]] IN
            ( \/ isna(cell)
              \/ cell = NotAvailable
              \/ ~ validate_naics_code(cell, column[2]) )
            => /\ table.answers[k] # NotAsked
               /\ table.output_file[k][column[1]] =
                      dict_get(table.answers[k], column[1])

(* C19: main_compinfo_update never changes initial_company_name, in a row it
   queries the API for or not, the call failing or not; a row that does not
   meet the condition of lines 159-165 is not queried and is written as it was
   read. *)
C19_InitialNamePreserved ==
    /\ \A k \in 1..Len(table.df) :
          table.updated_df[k].initial_company_name = table.df[k].initial_company_name
    /\ \A k \in 1..Len(table.answers) :
          /\ table.answers[k] = NotAsked <=> ~ UpdateCondition(table.df[k])
          /\ table.answers[k] = NotAsked => table.updated_df[k] = table.df[k]
    /\ table.pc = "saved" =>
          /\ Len(table.output_file) = Len(table.df)
          /\ \A k \in 1..Len(table.df) :
                /\ table.output_file[k].initial_company_name
                      = table.df[k].initial_company_name
                /\ ~ UpdateCondition(table.df[k])
                      => table.output_file[k] = table.df[k]

\* a table has been written of which one row was queried in vain, its other
\* cells now 'Not Available', and another row was not queried
C19_Witness ==
    /\ table.pc = "saved"
    /\ \E j, k \in 1..Len(table.df) :
          /\ table.answers[j] # NotAsked
          /\ dict_get(table.answers[j], "original_company_name") = NotAvailable
          /\ table.output_file[j].revenue_2023_usd = NotAvailable
          /\ table.output_file[j] # table.df[j]
          /\ table.answers[k] = NotAsked

(* C21: at every moment of a crawl, every URL of visited_urls other than the
   seed starts with base_url; a request is sent only to a URL of
   visited_urls, so to no URL without that prefix but possibly the seed; and
   the URL of every record of case_studies is in visited_urls. *)
C21_VisitedWithinOrigin ==
    /\ \A u \in visited_urls : u = SeedURL \/ StartsWith(u, base_url)
    /\ \A u \in URLs :
          fetch_calls[u] > 0 =>
              /\ u \in visited_urls
              /\ u = SeedURL \/ StartsWith(u, base_url)
    /\ \A k \in 1..Len(case_studies) : case_studies[k].url \in visited_urls

\* a page other than the seed, with a record of its own, has just been
\* served with a link to another origin before a link to its own origin:
\* get_links kept the second only
C21_Witness ==
    /\ stack # << >>
    /\ Top.pc = "loop"
    /\ Top.url = UrlA
    /\ markup = << HrefOther, HrefB >>
    /\ Top.links = << UrlB >>
    /\ fetch_calls[UrlA] = 2
    /\ \E k \in 1..Len(case_studies) : case_studies[k].url = UrlA

(* C22: main_compinfo.process_missing_data never changes the
   initial_company_name of a row, queried or not, whatever
   get_company_info_from_perplexity returned (the parsed record, the default
   record or nothing); and a row outside the mask of lines 153-155 is written
   as it was read. *)
C22_MissingKeepsInitialName ==
    /\ \A k \in 1..Len(table.df) :
          table.updated_df[k].initial_company_name = table.df[k].initial_company_name
    /\ table.pc = "saved" =>
          /\ Len(table.output_file) = Len(table.df)
          /\ \A k \in 1..Len(table.df) :
                /\ table.output_file[k].initial_company_name
                      = table.df[k].initial_company_name
                /\ ~ missing_mask(table.df[k])
                      => table.output_file[k] = table.df[k]

\* the page of response r is one the claim of C23 stops at: its request
\* failed (transport error or a status outside 2xx), it has no cards, or it has
\* no <a> whose string is "Next"
EndsScrape(r) ==
    \/ r.raised
    \/ r.status \notin 200..299
    \/ r.cards = << >>
    \/ ~ \E k \in 1..Len(r.anchors) : r.anchors[k] = << "Next" >>

\* s is the beginning of t
IsPrefix(s, t) == Len(s) <= Len(t) /\ SubSeq(t, 1, Len(s)) = s

\* the company names of the cards of response r
CardNames(r) ==
    { Strip(r.cards[k].h3) : k \in { j \in 1..Len(r.cards) : r.cards[j].h3 # NoTag } }

\* C23, what holds in every state
C23_State ==
    LET n == Len(table.requested) IN
    /\ \A j \in 1..n : table.requested[j] = PageUrl(j)
    /\ table.pc = "request" =>
          /\ table.page = n + 1
          /\ n > 0 => ~ EndsScrape(table.response)
    /\ table.pc # "request" => n > 0 /\ EndsScrape(table.response)
    /\ \A i \in 1..Len(table.all_case_studies) :
          /\ table.all_case_studies[i].page_number \in 1..n
          /\ \A j \in 1..i :
                table.all_case_studies[j].page_number
                    <= table.all_case_studies[i].page_number
    /\ table.pc = "returned" =>
          /\ table.df = Written(table.all_case_studies)
          /\ table.csv = Written(table.all_case_studies)
          /\ table.xlsx = Written(table.all_case_studies)

\* C23, what holds of every step
C23_Step ==
    LET n == Len(table.requested) IN
    /\ IsPrefix(table.all_case_studies, table'.all_case_studies)
    /\ IF table'.requested # table.requested
       THEN /\ table.pc = "request"
            /\ n > 0 => ~ EndsScrape(table.response)
            /\ table'.requested = Append(table.requested, PageUrl(n + 1))
            /\ \A i \in Len(table.all_case_studies) + 1 .. Len(table'.all_case_studies) :
                  /\ table'.all_case_studies[i].page_number = n + 1
                  /\ table'.all_case_studies[i].company_name \in CardNames(table'.response)
            /\ ~ (table'.response.raised \/ table'.response.status \notin 200..299)
                  => table'.all_case_studies =
                        table.all_case_studies \o ExtractCards(table'.response.cards, n + 1)
       ELSE table'.all_case_studies = table.all_case_studies

(* C23: scrape_kinaxis_case_studies requests pages 1, 2, ..., k in that order,
   each once, k being the first page whose request fails (transport error or
   non-success status), that has no cards or that has no 'Next' anchor; it
   requests no page after k; the case studies collected before a failing page
   are in the data it returns and saves; and every case study carries the
   number of the page it came from. *)
C23_PagesInOrderUntilEnd == [] C23_State /\ [][C23_Step]_vars

\* pages 1 and 2 gave case studies and a 'Next' anchor, page 3 answered 503:
\* the function returned the case studies of pages 1 and 2
C23_Witness ==
    /\ table.script = "main_with_nextbutton"
    /\ table.pc = "returned"
    /\ Len(table.requested) = 3
    /\ table.response.status = 503
    /\ Len(table.df.rows) >= 3
    /\ \E i, j \in 1..Len(table.df.rows) :
          /\ table.df.rows[i].page_number = 1
          /\ table.df.rows[j].page_number = 2
          /\ table.df.rows[j].company_name = << "Tesla" >>

====
